---- MODULE Spec2Model ----
(***************************************************************************)
(* Model of the fq_codel netlink attribute codec                           *)
(* (src/src/rtnl/tc/nlas/qdisc/fq_codel.rs): the decoder                   *)
(* unmarshal_fq_codel with its per-record validator                        *)
(* unmarshal_fq_codel_attr, and the encoder FqCodel::emit_value.           *)
(*                                                                         *)
(* Buffers are sequences of bytes (0..255), 1-indexed; a Rust offset o     *)
(* names the element o + 1.  Native byte order is a property of the build, *)
(* so it is a variable chosen once in Init.                                *)
(***************************************************************************)
EXTENDS Integers, Sequences, FiniteSets

VARIABLES endian, pc, origin, round, data, offset, fq, attr, result,
          fill, buffer, fault, first

vars == <<endian, pc, origin, round, data, offset, fq, attr, result,
          fill, buffer, fault, first>>

(***************************************************************************)
(* Program constants                                                       *)
(***************************************************************************)
FQ_CODEL_LEN == 64

NLA_HEADER_LEN == 4

ATTR_LEN == 4

(***************************************************************************)
(* Bounds of the model                                                     *)
(***************************************************************************)
\* longest run of well-formed records in an input or a constructed order
MaxRecords == 9

\* longest sequence of freely chosen (possibly malformed) records
MaxShort == 3

\* longest dangling tail appended to an input, in bytes
MaxTail == 7

(***************************************************************************)
(* Native-endian integer conversions (u16/u32 to_ne_bytes, from_ne_bytes). *)
(* The codec does no arithmetic on the 32-bit values, only these byte      *)
(* conversions; the values used stay below 2^31, the largest being         *)
(* 0x7FFFFFFF, which fills all four bytes.                                 *)
(***************************************************************************)
u16_to_ne_bytes(v) ==
    IF endian = "little" THEN <<v % 256, (v \div 256) % 256>>
                         ELSE <<(v \div 256) % 256, v % 256>>

u16_from_ne_bytes(b) ==
    IF endian = "little" THEN b[1] + 256 * b[2]
                         ELSE 256 * b[1] + b[2]

u32_to_ne_bytes(v) ==
    LET b0 == v % 256
        b1 == (v \div 256) % 256
        b2 == (v \div 65536) % 256
        b3 == (v \div 16777216) % 256
    IN IF endian = "little" THEN <<b0, b1, b2, b3>> ELSE <<b3, b2, b1, b0>>

u32_from_ne_bytes(b) ==
    IF endian = "little"
    THEN b[1] + 256 * b[2] + 65536 * b[3] + 16777216 * b[4]
    ELSE 16777216 * b[1] + 65536 * b[2] + 256 * b[3] + b[4]

(***************************************************************************)
(* enum TcaFqCodel, its discriminants and From<u16>                        *)
(***************************************************************************)
TcaFqCodel ==
    <<"Unspec", "Target", "Limit", "Interval", "Ecn", "Flows", "Quantum",
      "CeThreshold", "DropBatchSize", "MemoryLimit", "Max">>

\* `field as u16`: the discriminant of a kind
as_u16(kind) == (CHOOSE i \in 1..Len(TcaFqCodel) : TcaFqCodel[i] = kind) - 1

\* TcaFqCodel::from(v)
from_u16(v) ==
    CASE v = 0 -> "Unspec"
      [] v = 1 -> "Target"
      [] v = 2 -> "Limit"
      [] v = 3 -> "Interval"
      [] v = 4 -> "Ecn"
      [] v = 5 -> "Flows"
      [] v = 6 -> "Quantum"
      [] v = 7 -> "CeThreshold"
      [] v = 8 -> "DropBatchSize"
      [] v = 9 -> "MemoryLimit"
      [] OTHER -> "Max"

(***************************************************************************)
(* struct FqCodel                                                          *)
(***************************************************************************)
FqCodelDefault ==
    [target |-> 0, limit |-> 0, interval |-> 0, ecn |-> 0, flows |-> 0,
     quantum |-> 0, ce_threshold |-> 0, drop_batch_size |-> 0,
     memory_limit |-> 0, order |-> <<>>]

\* FqCodel::value_len
value_len(self) == FQ_CODEL_LEN

(***************************************************************************)
(* Result<_, DecodeError>                                                  *)
(***************************************************************************)
Ok(v) == [tag |-> "Ok", val |-> <<v>>, msg |-> ""]

Err(m) == [tag |-> "Err", val |-> <<>>, msg |-> m]

NoResult == [tag |-> "None", val |-> <<>>, msg |-> ""]

(***************************************************************************)
(* unmarshal_fq_codel_attr                                                 *)
(***************************************************************************)
\* the DecodeError message of each of the five validation checks
CheckError(check) ==
    CASE check = 1 -> "fq_codel: invalid data"
      [] check = 2 -> "fq_codel: invalid data"
      [] check = 3 -> "fq_codel: empty data"
      [] check = 4 -> "fq_codel: invalid data"
      [] check = 5 -> "fq_codel: invalid data"

\* an early return of the validator; `check` records which return was taken
AttrErr(check) ==
    [tag |-> "Err", msg |-> CheckError(check), check |-> check,
     kind |-> 0, value |-> 0]

AttrOk(kind, value) ==
    [tag |-> "Ok", msg |-> "", check |-> 0, kind |-> kind, value |-> value]

\* a slice index past the end of the data: the thread panics
AttrPanic == [tag |-> "Panic", msg |-> "", check |-> 0, kind |-> 0, value |-> 0]

\* slip: the header-size check placed before the empty-record check
unmarshal_fq_codel_attr_swapped(d) ==
    IF Len(d) < NLA_HEADER_LEN THEN AttrErr(1)
    ELSE
      LET length == u16_from_ne_bytes(<<d[1], d[2]>>)
          kind == u16_from_ne_bytes(<<d[3], d[4]>>)
      IN IF length > Len(d) THEN AttrErr(2)
         ELSE IF length < NLA_HEADER_LEN THEN AttrErr(4)
         ELSE IF length = 0 THEN AttrErr(3)
         ELSE IF length - NLA_HEADER_LEN # ATTR_LEN THEN AttrErr(5)
         ELSE IF NLA_HEADER_LEN + ATTR_LEN > Len(d) THEN AttrPanic
         ELSE AttrOk(kind,
                     u32_from_ne_bytes(SubSeq(d, NLA_HEADER_LEN + 1,
                                              NLA_HEADER_LEN + ATTR_LEN)))

\* slip: the payload check only rejects a payload that is too short
unmarshal_fq_codel_attr_lax(d) ==
    IF Len(d) < NLA_HEADER_LEN THEN AttrErr(1)
    ELSE
      LET length == u16_from_ne_bytes(<<d[1], d[2]>>)
          kind == u16_from_ne_bytes(<<d[3], d[4]>>)
      IN IF length > Len(d) THEN AttrErr(2)
         ELSE IF length = 0 THEN AttrErr(3)
         ELSE IF length < NLA_HEADER_LEN THEN AttrErr(4)
         ELSE IF length - NLA_HEADER_LEN < ATTR_LEN THEN AttrErr(5)
         ELSE IF NLA_HEADER_LEN + ATTR_LEN > Len(d) THEN AttrPanic
         ELSE AttrOk(kind,
                     u32_from_ne_bytes(SubSeq(d, NLA_HEADER_LEN + 1,
                                              NLA_HEADER_LEN + ATTR_LEN)))

unmarshal_fq_codel_attr(d) ==
    IF Len(d) < NLA_HEADER_LEN THEN AttrErr(1)
    ELSE
      LET length == u16_from_ne_bytes(<<d[1], d[2]>>)
          kind == u16_from_ne_bytes(<<d[3], d[4]>>)
      IN IF length > Len(d) THEN AttrErr(2)
         ELSE IF length = 0 THEN AttrErr(3)
         ELSE IF length < NLA_HEADER_LEN THEN AttrErr(4)
         ELSE IF length - NLA_HEADER_LEN # ATTR_LEN THEN AttrErr(5)
         ELSE IF NLA_HEADER_LEN + ATTR_LEN > Len(d) THEN AttrPanic
         ELSE AttrOk(kind,
                     u32_from_ne_bytes(SubSeq(d, NLA_HEADER_LEN + 1,
                                              NLA_HEADER_LEN + ATTR_LEN)))

(***************************************************************************)
(* unmarshal_fq_codel, one loop iteration per step                         *)
(***************************************************************************)
\* slip: the catch-all returns the validator's message
UnknownAttributeAsInvalid == Err("fq_codel: invalid data")

\* the catch-all arm of the match
UnknownAttribute == Err("fq_codel: unknown attribute")

\* slip: the MemoryLimit arm assigns the field of the arm above it
MatchKindSlip(f, kind, v) ==
    CASE kind = "Target" -> Ok([f EXCEPT !.target = v])
      [] kind = "Limit" -> Ok([f EXCEPT !.limit = v])
      [] kind = "Interval" -> Ok([f EXCEPT !.interval = v])
      [] kind = "Ecn" -> Ok([f EXCEPT !.ecn = v])
      [] kind = "Flows" -> Ok([f EXCEPT !.flows = v])
      [] kind = "Quantum" -> Ok([f EXCEPT !.quantum = v])
      [] kind = "CeThreshold" -> Ok([f EXCEPT !.ce_threshold = v])
      [] kind = "DropBatchSize" -> Ok([f EXCEPT !.drop_batch_size = v])
      [] kind = "MemoryLimit" -> Ok([f EXCEPT !.drop_batch_size = v])
      [] OTHER -> Err("fq_codel: unknown attribute")

\* slip: an Unspec record is skipped instead of rejected
MatchKindLenient(f, kind, v) ==
    CASE kind = "Target" -> Ok([f EXCEPT !.target = v])
      [] kind = "Limit" -> Ok([f EXCEPT !.limit = v])
      [] kind = "Interval" -> Ok([f EXCEPT !.interval = v])
      [] kind = "Ecn" -> Ok([f EXCEPT !.ecn = v])
      [] kind = "Flows" -> Ok([f EXCEPT !.flows = v])
      [] kind = "Quantum" -> Ok([f EXCEPT !.quantum = v])
      [] kind = "CeThreshold" -> Ok([f EXCEPT !.ce_threshold = v])
      [] kind = "DropBatchSize" -> Ok([f EXCEPT !.drop_batch_size = v])
      [] kind = "MemoryLimit" -> Ok([f EXCEPT !.memory_limit = v])
      [] kind = "Unspec" -> Ok(f)
      [] OTHER -> Err("fq_codel: unknown attribute")

\* the match on the kind: the field assignment, or the catch-all's return
MatchKind(f, kind, v) ==
    CASE kind = "Target" -> Ok([f EXCEPT !.target = v])
      [] kind = "Limit" -> Ok([f EXCEPT !.limit = v])
      [] kind = "Interval" -> Ok([f EXCEPT !.interval = v])
      [] kind = "Ecn" -> Ok([f EXCEPT !.ecn = v])
      [] kind = "Flows" -> Ok([f EXCEPT !.flows = v])
      [] kind = "Quantum" -> Ok([f EXCEPT !.quantum = v])
      [] kind = "CeThreshold" -> Ok([f EXCEPT !.ce_threshold = v])
      [] kind = "DropBatchSize" -> Ok([f EXCEPT !.drop_batch_size = v])
      [] kind = "MemoryLimit" -> Ok([f EXCEPT !.memory_limit = v])
      [] OTHER -> UnknownAttribute

\* slip: the cursor advances by the header only
AdvanceHeaderOnly(o) == o + NLA_HEADER_LEN

\* offset += NLA_HEADER_LEN + ATTR_LEN
Advance(o) == o + NLA_HEADER_LEN + ATTR_LEN

(***************************************************************************)
(* FqCodel::emit_value                                                     *)
(***************************************************************************)
\* buffer[o..o + Len(bytes)].copy_from_slice(bytes)
WriteAt(buf, o, bytes) ==
    [i \in 1..Len(buf) |->
        IF o < i /\ i <= o + Len(bytes) THEN bytes[i - o] ELSE buf[i]]

\* slip: the Quantum arm reads the value of the arm above it
FieldValueSlip(self, kind) ==
    CASE kind = "Target" -> self.target
      [] kind = "Limit" -> self.limit
      [] kind = "Interval" -> self.interval
      [] kind = "Ecn" -> self.ecn
      [] kind = "Flows" -> self.flows
      [] kind = "Quantum" -> self.flows
      [] kind = "CeThreshold" -> self.ce_threshold
      [] kind = "DropBatchSize" -> self.drop_batch_size
      [] kind = "MemoryLimit" -> self.memory_limit

\* the `values` array indexed by the match on the kind
FieldValue(self, kind) ==
    CASE kind = "Target" -> self.target
      [] kind = "Limit" -> self.limit
      [] kind = "Interval" -> self.interval
      [] kind = "Ecn" -> self.ecn
      [] kind = "Flows" -> self.flows
      [] kind = "Quantum" -> self.quantum
      [] kind = "CeThreshold" -> self.ce_threshold
      [] kind = "DropBatchSize" -> self.drop_batch_size
      [] kind = "MemoryLimit" -> self.memory_limit

\* the kinds the match in the encoder has an arm for; the rest is unreachable!()
HasValueArm(kind) == kind \notin {"Unspec", "Max"}

\* the record length the encoder writes
EmitLength == 8

\* the loop over self.order from its i-th entry on, writing at offset o;
\* a slice past the end of the buffer and unreachable!() both panic,
\* leaving what was written before
RECURSIVE EmitFrom(_, _, _, _)
EmitFrom(self, buf, i, o) ==
    IF i > Len(self.order) THEN [fault |-> "none", buffer |-> buf]
    ELSE
      LET field == self.order[i]
          b1 == WriteAt(buf, o, u16_to_ne_bytes(EmitLength))
          b2 == WriteAt(b1, o + 2, u16_to_ne_bytes(as_u16(field)))
          b3 == WriteAt(b2, o + 4, u32_to_ne_bytes(FieldValue(self, field)))
      IN IF o + 2 > Len(buf) THEN [fault |-> "index", buffer |-> buf]
         ELSE IF o + 4 > Len(buf) THEN [fault |-> "index", buffer |-> b1]
         ELSE IF ~HasValueArm(field)
              THEN [fault |-> "unreachable", buffer |-> b2]
         ELSE IF o + 4 + ATTR_LEN > Len(buf)
              THEN [fault |-> "index", buffer |-> b2]
         ELSE EmitFrom(self, b3, i + 1, o + 4 + ATTR_LEN)

emit_value(self, buf) == EmitFrom(self, buf, 1, 0)

(***************************************************************************)
(* Inputs: the byte buffers handed to FqCodel::new, and the parameter sets *)
(* a caller constructs directly                                            *)
(***************************************************************************)
\* one 8-byte record as the host writes it: declared length, kind, value
Rec(length, kind, value) ==
    u16_to_ne_bytes(length) \o u16_to_ne_bytes(kind) \o u32_to_ne_bytes(value)

RECURSIVE Flatten(_)
Flatten(ss) == IF ss = <<>> THEN <<>> ELSE Head(ss) \o Flatten(Tail(ss))

\* the i-th kind and value of the s-th run of well-formed records
RunKind(i, s) == ((i - 1 + 4 * s) % 9) + 1

RunValue(i, s) == 5000 * i + 240 * (i - 1) + 65536 * s

\* runs of 0..MaxRecords well-formed records cycling through the nine kinds
LongInputs ==
    { Flatten([i \in 1..n |-> Rec(8, RunKind(i, s), RunValue(i, s))]) :
        n \in 0..MaxRecords, s \in 0..1 }

\* records chosen freely: well-formed ones (a repeated kind with two values,
\* the sentinel kinds 0, 10 and 11) and ones whose declared length is not 8
ShortRecords ==
    { Rec(8, 1, 5000), Rec(8, 1, 7), Rec(8, 9, 2147483647),
      Rec(8, 0, 3), Rec(8, 10, 3), Rec(8, 11, 3),
      Rec(0, 1, 3), Rec(3, 1, 3), Rec(4, 1, 3), Rec(12, 1, 3) }

\* dangling tails: the first t bytes of a well-formed record
Tails == { SubSeq(Rec(8, 2, 10240), 1, t) : t \in 0..MaxTail }

ShortInputs ==
    { Flatten(rs) \o t :
        rs \in UNION { [1..n -> ShortRecords] : n \in 0..MaxShort },
        t \in Tails }

Inputs == LongInputs \cup ShortInputs

\* a parameter set with nine different field values
Populated ==
    [target |-> 5000, limit |-> 10240, interval |-> 100000, ecn |-> 1,
     flows |-> 1024, quantum |-> 1514, ce_threshold |-> 2147483647,
     drop_batch_size |-> 64, memory_limit |-> 33554432, order |-> <<>>]

\* order records a caller may set: runs of the nine kinds, and ones that
\* hold a sentinel kind
ConstructedOrders ==
    { [i \in 1..n |-> TcaFqCodel[RunKind(i, s) + 1]] :
        n \in 0..MaxRecords, s \in 0..1 }
    \cup { <<"Flows">>, <<"Unspec">>, <<"Target", "Max">>,
           <<"Quantum", "Flows", "Unspec", "Target">> }

Constructed ==
    { [f EXCEPT !.order = o] :
        f \in {FqCodelDefault, Populated}, o \in ConstructedOrders }

\* a caller's buffer of n bytes, every byte b
Filled(n, b) == [i \in 1..n |-> b]

(***************************************************************************)
(* State machine                                                           *)
(***************************************************************************)
\* no call of unmarshal_fq_codel_attr on the current data yet
NoAttr ==
    [at |-> 0,
     r |-> [tag |-> "None", msg |-> "", check |-> 0, kind |-> 0, value |-> 0]]

Init ==
    /\ endian \in {"little", "big"}
    /\ pc = "idle"
    /\ origin = "none"
    /\ round = 0
    /\ data = <<>>
    /\ offset = 0
    /\ fq = FqCodelDefault
    /\ attr = NoAttr
    /\ result = NoResult
    /\ fill = 0
    /\ buffer = <<>>
    /\ fault = "none"
    /\ first = <<>>

\* FqCodel::new(data): unmarshal_fq_codel up to its loop
New ==
    /\ pc = "idle"
    /\ \E d \in Inputs : data' = d
    /\ pc' = "decode"
    /\ origin' = "decoded"
    /\ round' = 1
    /\ offset' = 0
    /\ fq' = FqCodelDefault
    /\ UNCHANGED <<endian, attr, result, fill, buffer, fault, first>>

\* one iteration of the loop of unmarshal_fq_codel
DecodeRecord ==
    /\ pc = "decode"
    /\ offset < Len(data)
    /\ LET buf == SubSeq(data, offset + 1, Len(data))
           a == unmarshal_fq_codel_attr(buf)
           kind == from_u16(a.kind)
           pushed == [fq EXCEPT !.order = Append(@, kind)]
           m == MatchKind(pushed, kind, a.value)
       IN /\ attr' = [at |-> offset, r |-> a]
          /\ IF a.tag = "Panic"
             THEN /\ pc' = "panicked"
                  /\ UNCHANGED <<fq, offset, result>>
             ELSE IF a.tag = "Err"
             THEN /\ pc' = "failed"
                  /\ result' = Err(a.msg)
                  /\ UNCHANGED <<fq, offset>>
             ELSE IF m.tag = "Err"
             THEN /\ pc' = "failed"
                  /\ result' = m
                  /\ fq' = pushed
                  /\ UNCHANGED offset
             ELSE /\ pc' = "decode"
                  /\ fq' = m.val[1]
                  /\ offset' = Advance(offset)
                  /\ UNCHANGED result
    /\ UNCHANGED <<endian, origin, round, data, fill, buffer, fault, first>>

\* the loop of unmarshal_fq_codel ends: Ok(fq)
DecodeDone ==
    /\ pc = "decode"
    /\ ~(offset < Len(data))
    /\ pc' = "ready"
    /\ result' = Ok(fq)
    /\ UNCHANGED <<endian, origin, round, data, offset, fq, attr, fill,
                   buffer, fault, first>>

\* a caller constructs a parameter set directly
Construct ==
    /\ pc = "idle"
    /\ \E f \in Constructed : fq' = f
    /\ pc' = "ready"
    /\ origin' = "constructed"
    /\ round' = 1
    /\ UNCHANGED <<endian, data, offset, attr, result, fill, buffer, fault,
                   first>>

\* emit_value on a caller's buffer of value_len() bytes, every byte b before
Emit(b) ==
    /\ pc = "ready"
    /\ round = 1
    /\ LET e == emit_value(fq, Filled(value_len(fq), b))
       IN /\ buffer' = e.buffer
          /\ fault' = e.fault
    /\ fill' = b
    /\ pc' = "emitted"
    /\ UNCHANGED <<endian, origin, round, data, offset, fq, attr, result,
                   first>>

\* the round trip: the emitted value_len() bytes are decoded again
Redecode ==
    /\ pc = "emitted"
    /\ origin = "decoded"
    /\ fault = "none"
    /\ fill = 0
    /\ first' = <<[data |-> data, fq |-> fq]>>
    /\ pc' = "decode"
    /\ round' = 2
    /\ data' = buffer
    /\ offset' = 0
    /\ fq' = FqCodelDefault
    /\ result' = NoResult
    /\ attr' = NoAttr
    /\ UNCHANGED <<endian, origin, fill, buffer, fault>>

Next ==
    \/ New
    \/ DecodeRecord
    \/ DecodeDone
    \/ Construct
    \/ \E b \in {0, 170} : Emit(b)
    \/ Redecode

Spec == Init /\ [][Next]_vars

(***************************************************************************)
(* Vocabulary of the properties: the wire records of the buffer being      *)
(* decoded, read straight from its bytes                                   *)
(***************************************************************************)
\* the decode of the current data has returned
DecodeReturned == origin = "decoded" /\ pc \in {"ready", "failed", "emitted"}

\* whole 8-byte records in the data
NumRecords == Len(data) \div 8

\* declared length, kind and value of the record that starts at offset o
DeclaredAtOffset(o) == u16_from_ne_bytes(<<data[o + 1], data[o + 2]>>)

KindAtOffset(o) == u16_from_ne_bytes(<<data[o + 3], data[o + 4]>>)

ValueAtOffset(o) == u32_from_ne_bytes(SubSeq(data, o + 5, o + 8))

\* the same for the i-th whole record, i in 1..NumRecords
DeclaredAt(i) == DeclaredAtOffset(8 * (i - 1))

KindAt(i) == KindAtOffset(8 * (i - 1))

ValueAt(i) == ValueAtOffset(8 * (i - 1))

\* the wire number of each field kind, and the nine fields by wire number
KindNo ==
    [Target |-> 1, Limit |-> 2, Interval |-> 3, Ecn |-> 4, Flows |-> 5,
     Quantum |-> 6, CeThreshold |-> 7, DropBatchSize |-> 8, MemoryLimit |-> 9]

FieldKinds == DOMAIN KindNo

Fields(f) ==
    <<f.target, f.limit, f.interval, f.ecn, f.flows, f.quantum,
      f.ce_threshold, f.drop_batch_size, f.memory_limit>>

\* the last record of wire kind k, or 0 when there is none
LastOfKind(k) ==
    LET is == { i \in 1..NumRecords : KindAt(i) = k }
    IN IF is = {} THEN 0 ELSE CHOOSE i \in is : \A j \in is : j <= i

EmptyData == "fq_codel: empty data"

InvalidData == "fq_codel: invalid data"

UnknownKind == "fq_codel: unknown attribute"

(***************************************************************************)
(* C1  Round trip: a buffer that decodes to P, encoded into a zeroed       *)
(* buffer of value_len() bytes and decoded again, gives P again (fields    *)
(* and order), whatever the number of records.                             *)
(***************************************************************************)
C1_RoundTrip ==
    /\ (origin = "decoded" /\ pc = "emitted" /\ fill = 0) => fault = "none"
    /\ (round = 2 /\ pc # "decode") => result = Ok(first[1].fq)

(***************************************************************************)
(* C2  Byte identity: the bytes emit_value writes for a decoded parameter  *)
(* set, the first 8 x len(order) bytes, are the decoded buffer itself,     *)
(* also when a kind occurs twice with different values.                    *)
(***************************************************************************)
C2_ByteIdentity ==
    (origin = "decoded" /\ round = 1 /\ pc = "emitted") =>
        /\ fault = "none"
        /\ 8 * Len(fq.order) <= Len(buffer)
        /\ SubSeq(buffer, 1, 8 * Len(fq.order)) = data

(***************************************************************************)
(* C3  Fixed output size: with 0 to 9 non-sentinel kinds in the order      *)
(* record, value_len() is 64 and emit_value on a 64-byte buffer completes  *)
(* without fault, every write inside the buffer.                           *)
(***************************************************************************)
C3_FixedOutputSize ==
    (/\ pc = "emitted"
     /\ Len(fq.order) <= 9
     /\ \A i \in 1..Len(fq.order) : fq.order[i] \in FieldKinds) =>
        /\ value_len(fq) = 64
        /\ Len(buffer) = 64
        /\ fault = "none"
        /\ 8 * Len(fq.order) <= Len(buffer)

(***************************************************************************)
(* C4  Unknown kind rejection: when the decode reaches a record of         *)
(* declared length 8 whose kind is 0 or >= 10, it returns the unknown      *)
(* attribute error and no parameter set, whatever follows the record.      *)
(***************************************************************************)
\* record i lies in the data, declares length 8 and names a field
Passes(i) == DeclaredAt(i) = 8 /\ KindAt(i) \in 1..9

\* record i lies in the data, declares length 8 and names no field
BadKind(i) == DeclaredAt(i) = 8 /\ (KindAt(i) = 0 \/ KindAt(i) >= 10)

ReachesBadKind(i) == (\A j \in 1..(i - 1) : Passes(j)) /\ BadKind(i)

\* C4: a reached record of declared length 8 and kind 0 or >= 10 makes the
\* whole decode return the unknown attribute error and no parameter set
C4_UnknownKindRejected ==
    DecodeReturned =>
        \A i \in 1..NumRecords :
            ReachesBadKind(i) =>
                /\ result.tag = "Err"
                /\ result.msg = UnknownKind
                /\ result.val = <<>>

C4_Witness ==
    /\ DecodeReturned
    /\ result.msg = UnknownKind
    /\ NumRecords = 3
    /\ ReachesBadKind(2)
    /\ Passes(3)

(***************************************************************************)
(* C5  Per-record advance: the cursor moves by exactly 8 bytes per         *)
(* accepted record; a buffer whose length is no multiple of 8 is rejected; *)
(* a successful decode consumed len(buffer) / 8 records.                   *)
(***************************************************************************)
\* C5: the cursor is 8 x the accepted records; a length that is no multiple
\* of 8 is an error; success consumed len / 8 records
C5_PerRecordAdvance ==
    /\ (origin = "decoded" /\ pc = "decode") => offset = 8 * Len(fq.order)
    /\ (DecodeReturned /\ Len(data) % 8 # 0) => result.tag = "Err"
    /\ (DecodeReturned /\ result.tag = "Ok") =>
          /\ Len(data) % 8 = 0
          /\ offset = Len(data)
          /\ Len(result.val[1].order) = Len(data) \div 8

C5_Witness ==
    /\ DecodeReturned
    /\ result.tag = "Err"
    /\ Len(data) % 8 # 0
    /\ offset >= 16
    /\ attr.at = offset

(***************************************************************************)
(* C6  Validation order.  Original: the five checks run in the stated      *)
(* order, the error of a record is that of its first violated check, and   *)
(* the five checks have five different errors.  Amended: the same order    *)
(* and first-violated rule, but only the empty-record check (3) has an     *)
(* error of its own; checks 1, 2, 4 and 5 all return "invalid data".       *)
(***************************************************************************)
\* whether the record at offset o, with rem bytes left, violates check k
Violates(k, o) ==
    LET rem == Len(data) - o
    IN CASE k = 1 -> rem < 4
         [] k = 2 -> rem >= 4 /\ DeclaredAtOffset(o) > rem
         [] k = 3 -> rem >= 4 /\ DeclaredAtOffset(o) = 0
         [] k = 4 -> rem >= 4 /\ DeclaredAtOffset(o) < 4
         [] k = 5 -> rem >= 4 /\ DeclaredAtOffset(o) - 4 # 4

\* the first check the record at offset o violates, 0 when it violates none
FirstViolated(o) ==
    LET ks == { k \in 1..5 : Violates(k, o) }
    IN IF ks = {} THEN 0 ELSE CHOOSE k \in ks : \A j \in ks : k <= j

ValidatorCalled == attr.r.tag # "None"

\* the checks run in the stated order and the first violated one decides
FirstViolatedDecides ==
    ValidatorCalled =>
        /\ attr.r.check = FirstViolated(attr.at)
        /\ (attr.r.tag = "Ok") <=> (FirstViolated(attr.at) = 0)
        /\ (attr.r.tag = "Err") <=> (FirstViolated(attr.at) # 0)
        /\ attr.r.tag = "Err" => result = Err(attr.r.msg)

\* original statement
\* C6 as stated: first violated check decides, and the five checks have
\* five different errors
C6_DistinctErrors ==
    /\ FirstViolatedDecides
    /\ (ValidatorCalled /\ attr.r.tag = "Err") =>
          \A k \in (1..5) \ {attr.r.check} : CheckError(k) # attr.r.msg

\* amended statement
\* C6 amended: first violated check decides; check 3 returns "empty data",
\* checks 1, 2, 4 and 5 all return "invalid data"
C6_ValidationOrder ==
    /\ FirstViolatedDecides
    /\ (ValidatorCalled /\ attr.r.tag = "Err") =>
          attr.r.msg = IF FirstViolated(attr.at) = 3 THEN EmptyData
                                                     ELSE InvalidData

C6_Witness ==
    /\ ValidatorCalled
    /\ attr.at = 8
    /\ Violates(3, attr.at) /\ Violates(4, attr.at) /\ Violates(5, attr.at)
    /\ result = Err(EmptyData)

(***************************************************************************)
(* C7  Decode result: on success the order record is the sequence of the   *)
(* records' kinds in input order, duplicates kept; each field is the value *)
(* of the last record of its kind, or 0; the empty buffer decodes to the   *)
(* all-zero set with an empty order record.                                *)
(***************************************************************************)
C7_DecodeResult ==
    /\ (DecodeReturned /\ result.tag = "Ok") =>
          LET f == result.val[1]
          IN /\ Len(f.order) = NumRecords
             /\ \A i \in 1..NumRecords :
                   /\ KindAt(i) \in 1..9
                   /\ f.order[i] \in FieldKinds
                   /\ KindNo[f.order[i]] = KindAt(i)
             /\ \A k \in 1..9 :
                   Fields(f)[k] = IF LastOfKind(k) = 0 THEN 0
                                  ELSE ValueAt(LastOfKind(k))
    /\ (DecodeReturned /\ data = <<>>) => result = Ok(FqCodelDefault)

\* a kind repeated with two values, then the last of the nine kinds
C7_Witness ==
    /\ DecodeReturned
    /\ result.tag = "Ok"
    /\ NumRecords = 3
    /\ KindAt(1) = 1 /\ KindAt(2) = 1 /\ KindAt(3) = 9
    /\ ValueAt(1) # ValueAt(2)
    /\ result.val[1].target = ValueAt(2)
    /\ result.val[1].order = <<"Target", "Target", "MemoryLimit">>

(***************************************************************************)
(* C8  Encode content and frame: when emit_value completes, record i of    *)
(* the buffer holds length 8, the number of order[i] and the value of the  *)
(* field order[i] names; the bytes from 8 x len(order) on are untouched;   *)
(* the parameter set is not modified.                                      *)
(***************************************************************************)
C8_EncodeContentAndFrame ==
    (pc = "emitted" /\ fault = "none") =>
        /\ Len(buffer) = FQ_CODEL_LEN
        /\ 8 * Len(fq.order) <= Len(buffer)
        /\ \A i \in 1..Len(fq.order) :
              LET o == 8 * (i - 1)
              IN /\ u16_from_ne_bytes(SubSeq(buffer, o + 1, o + 2)) = 8
                 /\ u16_from_ne_bytes(SubSeq(buffer, o + 3, o + 4))
                       = KindNo[fq.order[i]]
                 /\ u32_from_ne_bytes(SubSeq(buffer, o + 5, o + 8))
                       = Fields(fq)[KindNo[fq.order[i]]]
        /\ \A j \in (8 * Len(fq.order) + 1)..Len(buffer) : buffer[j] = fill
        /\ origin = "decoded" => result = Ok(fq)
        /\ origin = "constructed" => fq \in Constructed

C8_Witness ==
    /\ pc = "emitted"
    /\ fault = "none"
    /\ fill = 170
    /\ fq.order = <<"Flows", "Quantum", "CeThreshold">>
    /\ fq.flows = 1024

(***************************************************************************)
(* C9  Order-record validity: a decoded parameter set holds only the nine  *)
(* field kinds in its order record, so encoding it never reaches the       *)
(* unreachable branch; only a constructed set with a sentinel kind does.   *)
(***************************************************************************)
C9_OrderRecordValid ==
    /\ (origin = "decoded" /\ result.tag = "Ok") =>
          \A i \in 1..Len(result.val[1].order) :
              result.val[1].order[i] \in FieldKinds
    /\ (origin = "decoded" /\ pc = "emitted") => fault # "unreachable"
    /\ fault = "unreachable" =>
          /\ origin = "constructed"
          /\ \E i \in 1..Len(fq.order) : fq.order[i] \in {"Unspec", "Max"}

C9_Witness ==
    /\ origin = "decoded"
    /\ pc = "emitted"
    /\ fault = "none"
    /\ Len(fq.order) = 8

(***************************************************************************)
(* C10  Every record the validator accepts declares length 8, so the       *)
(* decoder advancing by the constant 8 and one advancing by the declared   *)
(* length return the same result on every buffer, and the payload read     *)
(* stays inside the buffer.                                                *)
(***************************************************************************)
\* unmarshal_fq_codel with the cursor advanced by each record's declared length
RECURSIVE DecodeByDeclaredLength(_, _)
DecodeByDeclaredLength(o, f) ==
    IF ~(o < Len(data)) THEN Ok(f)
    ELSE
      LET a == unmarshal_fq_codel_attr(SubSeq(data, o + 1, Len(data)))
          kind == from_u16(a.kind)
          m == MatchKind([f EXCEPT !.order = Append(@, kind)], kind, a.value)
      IN IF a.tag = "Panic" THEN [tag |-> "Panic", val |-> <<>>, msg |-> ""]
         ELSE IF a.tag = "Err" THEN Err(a.msg)
         ELSE IF m.tag = "Err" THEN m
         ELSE DecodeByDeclaredLength(o + DeclaredAtOffset(o), m.val[1])

\* C10: accepted records declare length 8, the payload read stays inside
\* the data, and advancing by the declared length gives the same result
C10_DeclaredLengthIsEight ==
    /\ pc # "panicked"
    /\ attr.r.tag # "Panic"
    /\ attr.r.tag = "Ok" =>
          /\ DeclaredAtOffset(attr.at) = 8
          /\ attr.at + 8 <= Len(data)
    /\ DecodeReturned => result = DecodeByDeclaredLength(0, FqCodelDefault)

C10_Witness ==
    /\ DecodeReturned
    /\ round = 1
    /\ NumRecords = 2
    /\ Len(data) = 20
    /\ result = Err(InvalidData)
    /\ attr.at = 16

====
